---------------------------- MODULE Spec2Model ----------------------------
(***************************************************************************)
(* A model of graphenebase/transactions.py: the primitive codecs, the      *)
(* composite object model (wire and JSON rendering) and the signing loop   *)
(* of Signed_Transaction.                                                  *)
(*                                                                         *)
(* Conventions.  A Python bytes object is a sequence of integers 0..255.   *)
(* A Python str that the code converts (hex text, UTF-8 text) is a         *)
(* sequence of code points; dictionary keys and class names that the code  *)
(* only compares are TLA+ strings.  The result of an evaluation that may   *)
(* raise is a record [err, v]: err = "none" and v the value, or err the    *)
(* name of the exception raised.                                           *)
(***************************************************************************)
EXTENDS Integers, Sequences, FiniteSets

(***************************************************************************)
(* Bounds of the model.                                                    *)
(***************************************************************************)
\* sign() calls made on one transaction
MaxCalls == 2
\* the attempt counter cnt is tracked exactly up to MaxCnt, where it stays:
\* cnt = MaxCnt stands for MaxCnt attempts or more (the code only prints cnt)
MaxCnt == 3
\* largest integer handed to varint in the codec specification
MaxVarint == 300

Ok(v) == [err |-> "none", v |-> v]
Raise(e) == [err |-> e, v |-> <<>>]

(***************************************************************************)
(* Byte-level helpers.                                                     *)
(***************************************************************************)
RECURSIVE LEBytes(_, _)
\* struct.pack("<B" | "<H" | "<I" | "<Q" | "<q", n): k little-endian bytes
\* (two's complement for a negative n)
LEBytes(n, k) == IF k = 0 THEN <<>> ELSE <<n % 256>> \o LEBytes(n \div 256, k - 1)

RECURSIVE varint(_)
varint(n) == IF n >= 128 THEN <<(n % 128) + 128>> \o varint(n \div 128) ELSE <<n>>

\* a Python bytes object / a Python str, as varintdecode's argument
PyBytes(b) == [ty |-> "bytes", v |-> b]
PyStr(s) == [ty |-> "str", v |-> s]

\* ord(c): c is an element got by iterating the argument; iterating bytes
\* yields int objects, and ord of an int raises TypeError
ord(ty, c) == IF ty = "str" THEN Ok(c) ELSE Raise("TypeError")

RECURSIVE Pow2(_)
Pow2(k) == IF k = 0 THEN 1 ELSE 2 * Pow2(k - 1)

RECURSIVE varintloop(_, _, _, _)
\* the for loop of varintdecode from element idx on
varintloop(data, idx, shift, result) ==
    IF idx > Len(data.v) THEN Ok(result)
    ELSE LET b == ord(data.ty, data.v[idx]) IN
         IF b.err # "none" THEN Raise(b.err)
         ELSE LET r2 == result + (b.v % 128) * Pow2(shift) IN
              IF b.v < 128 THEN Ok(r2)
              ELSE varintloop(data, idx + 1, shift + 7, r2)

varintdecode(data) == varintloop(data, 1, 0, 0)

\* bytes(s, 'utf-8') for code points below 0x800
RECURSIVE Utf8(_)
Utf8(s) ==
    IF s = <<>> THEN <<>>
    ELSE (IF s[1] < 128 THEN <<s[1]>>
          ELSE <<192 + (s[1] \div 64), 128 + (s[1] % 64)>>) \o Utf8(Tail(s))

\* the value of one hex digit character, -1 for any other character
HexVal(c) ==
    IF c >= 48 /\ c <= 57 THEN c - 48
    ELSE IF c >= 97 /\ c <= 102 THEN c - 87
    ELSE IF c >= 65 /\ c <= 70 THEN c - 55
    ELSE -1

\* binascii.unhexlify(s)
unhexlify(s) ==
    IF Len(s) % 2 # 0 THEN Raise("binascii.Error")
    ELSE IF \E k \in 1..Len(s) : HexVal(s[k]) < 0 THEN Raise("binascii.Error")
    ELSE Ok([k \in 1..(Len(s) \div 2) |-> 16 * HexVal(s[2*k - 1]) + HexVal(s[2*k])])

\* hashlib.sha256(m).digest(), as an ideal (collision-free) hash: the digest
\* stands for the message it was computed from
sha256(m) == [sha256 |-> m]

(***************************************************************************)
(* calendar.timegm(time.strptime(data + "UTC", '%Y-%m-%dT%H:%M:%S%Z')).    *)
(* The parsed timestamp is the tuple <<Y, M, D, h, m, s>>.                 *)
(***************************************************************************)
IsLeap(Y) == (Y % 4 = 0) /\ ((Y % 100 # 0) \/ (Y % 400 = 0))
LeapsBefore(Y) == ((Y - 1) \div 4) - ((Y - 1) \div 100) + ((Y - 1) \div 400)
DaysBeforeMonth == <<0, 31, 59, 90, 120, 151, 181, 212, 243, 273, 304, 334>>
timegm(ts) ==
    LET days == 365 * (ts[1] - 1970) + LeapsBefore(ts[1]) - LeapsBefore(1970)
                + DaysBeforeMonth[ts[2]]
                + (IF IsLeap(ts[1]) /\ ts[2] > 2 THEN 1 ELSE 0)
                + (ts[3] - 1)
    IN  ((days * 24 + ts[4]) * 60 + ts[5]) * 60 + ts[6]


(***************************************************************************)
(* The serializable types.  A value is a record tagged with its class.     *)
(***************************************************************************)
None == [t |-> "None"]
Uint8(d) == [t |-> "Uint8", d |-> d]
Uint16(d) == [t |-> "Uint16", d |-> d]
Uint32(d) == [t |-> "Uint32", d |-> d]
Uint64(d) == [t |-> "Uint64", d |-> d]
Varint32(d) == [t |-> "Varint32", d |-> d]
Int64(d) == [t |-> "Int64", d |-> d]
String(d) == [t |-> "String", d |-> d]
\* Bytes(d) with no length argument: length = len(data)
Bytes(d) == [t |-> "Bytes", d |-> d, length |-> Len(d)]
Void == [t |-> "Void"]
Array(d) == [t |-> "Array", d |-> d, length |-> Varint32(Len(d))]
PointInTime(d) == [t |-> "PointInTime", d |-> d]
Signature(d) == [t |-> "Signature", d |-> d]
Bool(d) == [t |-> "Bool", d |-> d]
Set(d) == [t |-> "Set", d |-> d, length |-> Varint32(Len(d))]
Optional(d) == [t |-> "Optional", d |-> d]
Id(d) == [t |-> "Id", d |-> Varint32(d)]

\* operations[name]
operations(name) ==
    CASE name = "transfer" -> 0
      [] name = "limit_order_create" -> 1
      [] name = "limit_order_cancel" -> 2

\* object_type[name]
object_type(name) ==
    CASE name = "account" -> 2
      [] name = "asset" -> 3

\* Operation(op): name is the lower-cased class name of op
Operation(op) == [t |-> "Operation", op |-> op, name |-> op.cls, opId |-> operations(op.cls)]

\* GrapheneObject(data): data is None (none = TRUE) or an ordered mapping,
\* a sequence of <<name, value>> pairs
GrapheneObject(cls, data) == [t |-> "GrapheneObject", cls |-> cls, none |-> FALSE, data |-> data]
GrapheneObjectNone(cls) == [t |-> "GrapheneObject", cls |-> cls, none |-> TRUE, data |-> <<>>]

\* ObjectId(object_str, type_verify) for an object_str of three integer
\* parts S.T.I, given as <<S, T, I>>, whose type matches type_verify
ObjectId(parts, type_verify) ==
    [t |-> "ObjectId", space |-> parts[1], type |-> parts[2], instance |-> Id(parts[3]),
     Id |-> parts]

\* PublicKey(pk, prefix) of the account module: an opaque compressed key
PublicKey(pk) == [t |-> "PublicKey", pk |-> pk]
PublicKeyBytes(v) == <<2>> \o [k \in 1..32 |-> v.pk]

RECURSIVE bytesOf(_)
RECURSIVE joinBytes(_, _)
\* b"".join([bytes(a) for a in items]) from element idx on; the first
\* failing bytes(a) raises
joinBytes(items, idx) ==
    IF idx > Len(items) THEN Ok(<<>>)
    ELSE LET h == bytesOf(items[idx]) IN
         IF h.err # "none" THEN h
         ELSE LET r == joinBytes(items, idx + 1) IN
              IF r.err # "none" THEN r ELSE Ok(h.v \o r.v)

RECURSIVE objectBytes(_, _)
\* the loop of GrapheneObject.__bytes__ over self.data.items()
objectBytes(data, idx) ==
    IF idx > Len(data) THEN Ok(<<>>)
    ELSE LET h == bytesOf(data[idx][2]) IN
         IF h.err # "none" THEN h
         ELSE LET r == objectBytes(data, idx + 1) IN
              IF r.err # "none" THEN r ELSE Ok(h.v \o r.v)

\* Optional.__bytes__:
\*   bytes(Bool(1)) + bytes(self.data) if bytes(self.data) else bytes(Bool(0))
OptionalBytes(v) ==
    LET inner == bytesOf(v.d) IN
    IF inner.err # "none" THEN inner
    ELSE IF inner.v # <<>> THEN Ok(bytesOf(Bool(1)).v \o inner.v)
    ELSE bytesOf(Bool(0))

\* bytes(v): the __bytes__ method of v's class
bytesOf(v) ==
    CASE v.t = "None" -> Raise("TypeError")
      [] v.t \in {"Uint8", "Bool"} ->
            IF v.d >= 0 /\ v.d <= 255 THEN Ok(LEBytes(v.d, 1)) ELSE Raise("struct.error")
      [] v.t = "Uint16" ->
            IF v.d >= 0 /\ v.d <= 65535 THEN Ok(LEBytes(v.d, 2)) ELSE Raise("struct.error")
      [] v.t = "Uint32" ->
            IF v.d >= 0 THEN Ok(LEBytes(v.d, 4)) ELSE Raise("struct.error")
      [] v.t = "Uint64" ->
            IF v.d >= 0 THEN Ok(LEBytes(v.d, 8)) ELSE Raise("struct.error")
      [] v.t = "Int64" -> Ok(LEBytes(v.d, 8))
      [] v.t = "Varint32" ->
            IF v.d >= 0 THEN Ok(varint(v.d)) ELSE Raise("ValueError")
      [] v.t = "Id" -> bytesOf(v.d)
      [] v.t = "String" -> Ok(varint(Len(v.d)) \o Utf8(v.d))
      [] v.t = "Bytes" -> Ok(varint(v.length) \o Utf8(v.d))
      [] v.t = "Void" -> Ok(<<>>)
      [] v.t \in {"Array", "Set"} ->
            LET r == joinBytes(v.d, 1) IN
            IF r.err # "none" THEN r ELSE Ok(bytesOf(v.length).v \o r.v)
      [] v.t = "PointInTime" -> Ok(LEBytes(timegm(v.d), 4))
      [] v.t = "Signature" -> Ok(v.d)
      [] v.t = "Optional" -> OptionalBytes(v)
      [] v.t = "ObjectId" -> bytesOf(v.instance)
      [] v.t = "Operation" ->
            LET r == bytesOf(v.op) IN
            IF r.err # "none" THEN r ELSE Ok(bytesOf(Id(v.opId)).v \o r.v)
      [] v.t = "GrapheneObject" ->
            IF v.none THEN Ok(<<>>) ELSE objectBytes(v.data, 1)
      [] v.t = "PublicKey" -> Ok(PublicKeyBytes(v))

(***************************************************************************)
(* The objects built from them.                                            *)
(***************************************************************************)
Asset(amount, asset_id) ==
    GrapheneObject("asset", << <<"amount", Int64(amount)>>,
                               <<"asset_id", ObjectId(asset_id, "asset")>> >>)

\* Memo() with no message: GrapheneObject.__init__(None)
MemoEmpty == GrapheneObjectNone("memo")
\* Memo(from, to, nonce, message) with a message and a chain with a prefix
Memo(from, to, nonce, message) ==
    GrapheneObject("memo", << <<"from", PublicKey(from)>>,
                              <<"to", PublicKey(to)>>,
                              <<"nonce", Uint64(nonce)>>,
                              <<"message", Bytes(message)>> >>)

Transfer(feeObj, from, to, amountObj, memo) ==
    GrapheneObject("transfer", << <<"fee", feeObj>>,
                                  <<"from", ObjectId(from, "account")>>,
                                  <<"to", ObjectId(to, "account")>>,
                                  <<"amount", amountObj>>,
                                  <<"memo", Optional(memo)>>,
                                  <<"extensions", Set(<<>>)>> >>)

\* the field map Signed_Transaction.__init__ builds
Signed_Transaction(refNum, refPrefix, expiration, ops) ==
    << <<"ref_block_num", Uint16(refNum)>>,
       <<"ref_block_prefix", Uint32(refPrefix)>>,
       <<"expiration", PointInTime(expiration)>>,
       <<"operations", Array(ops)>>,
       <<"extensions", Set(<<>>)>>,
       <<"signatures", Void>> >>

(***************************************************************************)
(* The ecdsa library, as sign uses it.  A number r or s below 2^256 is its *)
(* 32-byte big-endian string.                                              *)
(***************************************************************************)
RECURSIVE StripZeros(_)
StripZeros(b) == IF Len(b) > 1 /\ b[1] = 0 THEN StripZeros(Tail(b)) ELSE b

\* left-pad to 32 bytes
Pad32(m) == [k \in 1..32 |-> IF k <= 32 - Len(m) THEN 0 ELSE m[k - (32 - Len(m))]]

\* ecdsa.der.encode_integer: minimal big-endian bytes, a 0x00 in front when
\* the top bit is set
encode_integer(n) ==
    LET m == StripZeros(n)
        body == IF m[1] >= 128 THEN <<0>> \o m ELSE m
    IN  <<2, Len(body)>> \o body

\* ecdsa.util.sigencode_der(r, s, order)
sigencode_der(r, s) ==
    LET body == encode_integer(r) \o encode_integer(s)
    IN  <<48, Len(body)>> \o body

\* ecdsa.util.sigdecode_der(sigder, order): <<r, s>>
sigdecode_der(sigder) ==
    LET l1 == sigder[4]
        rb == SubSeq(sigder, 5, 4 + l1)
        l2 == sigder[6 + l1]
        sb == SubSeq(sigder, 7 + l1, 6 + l1 + l2)
    IN  <<Pad32(StripZeros(rb)), Pad32(StripZeros(sb))>>

\* ecdsa.util.sigencode_string(r, s, order)
sigencode_string(r, s) == r \o s

Num(b1, b2) == <<b1, b2>> \o [k \in 1..30 |-> 17]

\* PrivateKey(wif) of the account module decodes the WIF or raises
PrivateKeyOk(wif) == wif # "wifBad"
\* sk.get_verifying_key() of the key decoded from wif
get_verifying_key(wif) ==
    CASE wif = "wifA" -> "pubA"
      [] wif = "wifB" -> "pubB"

\* What one attempt may draw (a fresh random nonce each attempt): the
\* numbers r and s that sk.sign_digest returns, and with them what
\* recover_public_key(digest, signature, i) returns for i = 0..3: a
\* verifying key, or "None" when its paranoia check (verify_digest) fails.
\* The elliptic-curve computation is the library's; its answers are an input
\* of the attempt.  r fills 32 bytes with the top bit clear (127 first), or
\* 31 bytes with the top bit set (0, 128: DER length 32 with a pad byte), or
\* has the top bit set (128 first: DER length 33), or is short (0, 85: DER
\* length 31).
Candidates(pub) ==
    { [r |-> Num(127, 1), s |-> Num(127, 2), rec |-> <<pub, "pubX", pub, "pubX">>],
      [r |-> Num(0, 128), s |-> Num(127, 2), rec |-> <<"pubX", "pubX", pub, "pubX">>],
      [r |-> Num(127, 1), s |-> Num(127, 2), rec |-> <<"pubX", "pubX", "pubX", "pubX">>],
      [r |-> Num(127, 1), s |-> Num(127, 2), rec |-> <<"pubX", "None", pub, "pubX">>],
      [r |-> Num(128, 1), s |-> Num(127, 2), rec |-> <<pub, "pubX", "pubX", "pubX">>],
      [r |-> Num(0, 85), s |-> Num(127, 2), rec |-> <<"pubX", pub, "pubX", "pubX">>],
      [r |-> Num(127, 1), s |-> Num(200, 2), rec |-> <<"pubX", "pubX", "pubX", pub>>] }
recover_public_key(recd, i) == recd[i + 1]

PyInt(n) == [t |-> "int", d |-> n]

RECURSIVE recoverLoop(_, _, _)
\* the for loop of recoverPubkeyParameter from index i on
recoverLoop(recd, pubkey, i) ==
    IF i > 3 THEN Ok(None)
    ELSE LET p == recover_public_key(recd, i) IN
         IF p = "None" THEN Raise("AttributeError")
         ELSE IF p = pubkey THEN Ok(PyInt(i))
         ELSE recoverLoop(recd, pubkey, i + 1)

recoverPubkeyParameter(recd, pubkey) == recoverLoop(recd, pubkey, 0)

\* i += k on a Python value
IAdd(x, k) == IF x.t = "None" THEN Raise("TypeError") ELSE Ok(PyInt(x.d + k))

\* i = recoverPubkeyParameter(...); i += 4; i += 27
HeaderByte(recd, pubkey) ==
    LET r0 == recoverPubkeyParameter(recd, pubkey) IN
    IF r0.err # "none" THEN r0
    ELSE LET r1 == IAdd(r0.v, 4) IN
         IF r1.err # "none" THEN r1 ELSE IAdd(r1.v, 27)

\* a canonical test that looks at lenR alone
IsCanonicalLenROnly(sigder) == sigder[4] = 32

\* lenR is 32 and lenS is 32, with lenR = sigder[3], lenS = sigder[5+lenR]
IsCanonical(sigder) ==
    LET lenR == sigder[4]
        lenS == sigder[6 + lenR]
    IN  lenR = 32 /\ lenS = 32

\* a search loop that gives up after two attempts
WhileCondBudget(c) == c < 2

\* while 1
WhileCond(c) == TRUE

(***************************************************************************)
(* Networks.                                                               *)
(***************************************************************************)
GPHChainId ==
    << 98, 56, 100, 49, 54, 48, 51, 57, 54, 53, 98, 51, 101, 98, 49, 97,
       99, 98, 97, 50, 55, 101, 54, 50, 102, 102, 53, 57, 102, 55, 52, 101,
       102, 97, 51, 49, 53, 52, 100, 52, 51, 97, 52, 49, 56, 56, 100, 51,
       56, 49, 48, 56, 56, 97, 99, 55, 99, 100, 102, 51, 53, 53, 51, 57 >>

KnownChainNames == {"BTS", "GPH"}
known_chains(name) ==
    CASE name = "BTS" -> [chain_id |-> <<>>, core_symbol |-> <<>>, prefix |-> <<>>]
      [] name = "GPH" -> [chain_id |-> GPHChainId,
                          core_symbol |-> <<67, 79, 82, 69>>,
                          prefix |-> <<71, 80, 72>>]

\* a chain argument: a str (k = "str", s its value), a dict (k = "dict", d
\* its entries) or anything else (k = "other")
ChainStr(s) == [k |-> "str", s |-> s, d |-> [x \in {} |-> <<>>]]
ChainDict(d) == [k |-> "dict", s |-> "", d |-> d]
ChainOther == [k |-> "other", s |-> "", d |-> [x \in {} |-> <<>>]]

\* a chain lookup that falls back to the default network for any string
ResolveChainFallback(c) ==
    IF c.k = "str" THEN Ok(known_chains(IF c.s \in KnownChainNames THEN c.s ELSE "BTS"))
    ELSE IF c.k = "dict" THEN Ok(c.d)
    ELSE Ok(known_chains("BTS"))

\* the first statements of sign: the chain parameters, or the exception
ResolveChain(c) ==
    LET params == IF c.k = "str" /\ c.s \in KnownChainNames THEN Ok(known_chains(c.s))
                  ELSE IF c.k = "dict" THEN Ok(c.d)
                  ELSE Raise("Exception: sign() only takes a string or a dict as chain!")
    IN  IF params.err # "none" THEN params
        ELSE IF "chain_id" \notin DOMAIN params.v
             THEN Raise("Exception: sign() needs a 'chain_id' in chain params!")
        ELSE params

RECURSIVE UniqueFrom(_, _, _)
\* [acc.append(item) for item in wifkeys if item not in acc] from idx on
UniqueFrom(keys, idx, acc) ==
    IF idx > Len(keys) THEN acc
    ELSE UniqueFrom(keys, idx + 1,
                    IF \E k \in 1..Len(acc) : acc[k] = keys[idx] THEN acc
                    ELSE Append(acc, keys[idx]))

(***************************************************************************)
(* The state: one Signed_Transaction and the sign calls made on it.        *)
(***************************************************************************)
VARIABLES
    data,           \* self.data: the ordered field map
    privkeys,       \* self.privkeys
    chainid,        \* self.chainid
    message,        \* self.message
    digest,         \* self.digest
    pc,             \* "idle": no call running; "for": at the head of the loop
                    \* over the keys; "while": at the head of the search loop;
                    \* "check": a candidate signed, before the canonical test
    calls,          \* sign calls made so far
    chain,          \* the chain argument of the last call
    ret,            \* "none", "running", "ok" or the exception of the last call
    sigs, kidx, cnt, i, signature, sigder,    \* the locals of sign
    rec,            \* the recover_public_key answers for the candidate
    sigsInfo,       \* for each element of sigs: what it was made from
    signaturesInfo, \* the same for the elements of data["signatures"]
    vn, vout,       \* codec: varint input and round-trip result
    optIn, optOut,  \* codec: Optional input and its bytes
    objIn, objOut   \* codec: composite input and its JSON rendering

signVars == <<data, privkeys, chainid, message, digest, pc, calls, chain, ret,
              sigs, kidx, cnt, i, signature, sigder, rec, sigsInfo, signaturesInfo>>
codecVars == <<vn, vout, optIn, optOut, objIn, objOut>>
vars == <<signVars, codecVars>>

locals == <<sigs, kidx, cnt, i, signature, sigder, rec, sigsInfo>>
attrs == <<privkeys, chainid, message, digest>>

Fee == Asset(10, <<1, 3, 0>>)
Amount == Asset(5, <<1, 3, 0>>)
FullMemo == Memo(3, 4, 1, <<104, 105>>)
TransferEmptyMemo == Transfer(Fee, <<1, 2, 7>>, <<1, 2, 128>>, Amount, MemoEmpty)
TransferNoMemo == Transfer(Fee, <<1, 2, 7>>, <<1, 2, 128>>, Amount, None)
TransferFullMemo == Transfer(Fee, <<1, 2, 7>>, <<1, 2, 128>>, Amount, FullMemo)

\* the transactions the model starts from
Txs ==
    << Signed_Transaction(513, 7, <<2016, 1, 1, 0, 0, 0>>, <<Operation(TransferEmptyMemo)>>),
       Signed_Transaction(513, 7, <<2016, 1, 1, 0, 0, 0>>, <<Operation(TransferNoMemo)>>) >>

\* the chain arguments sign is called with
ChainArgs ==
    << ChainStr("BTS"),
       ChainStr("GPH"),
       ChainStr("XXX"),
       ChainOther,
       ChainDict([prefix |-> <<71, 80, 72>>]),
       ChainDict([chain_id |-> GPHChainId, prefix |-> <<71, 80, 72>>]),
       ChainDict([chain_id |-> <<97, 98, 99>>]) >>

\* the wifkeys arguments sign is called with
WifLists ==
    << <<>>, <<"wifA">>, <<"wifA", "wifB", "wifA">>, <<"wifA", "wifBad">> >>

ResetLocals ==
    /\ sigs' = <<>> /\ kidx' = 0 /\ cnt' = 0 /\ i' = 0
    /\ signature' = <<>> /\ sigder' = <<>> /\ rec' = <<>> /\ sigsInfo' = <<>>

SignInit(tx) ==
    /\ data = tx
    /\ privkeys = <<>> /\ chainid = <<>> /\ message = <<>> /\ digest = sha256(<<>>)
    /\ pc = "idle" /\ calls = 0 /\ chain = ChainOther /\ ret = "none"
    /\ sigs = <<>> /\ kidx = 0 /\ cnt = 0 /\ i = 0
    /\ signature = <<>> /\ sigder = <<>> /\ rec = <<>> /\ sigsInfo = <<>>
    /\ signaturesInfo = <<>>

\* bytes(self)
SelfBytes(d) == bytesOf(GrapheneObject("signed_transaction", d))

\* self.data[name] = value
SetItem(d, name, value) ==
    [k \in 1..Len(d) |-> IF d[k][1] = name THEN <<name, value>> ELSE d[k]]

\* a store that also writes the signatures into the extensions field
StoreSignaturesAndExtensions(d, ss) ==
    SetItem(SetItem(d, "signatures", Array(ss)), "extensions", Set(ss))

\* self.data["signatures"] = Array(sigs)
StoreSignatures(d, ss) == SetItem(d, "signatures", Array(ss))

\* sign(wifkeys, chain) up to the loop over the keys
Sign(wifkeys, c) ==
    /\ pc = "idle"
    /\ calls < MaxCalls
    /\ calls' = calls + 1
    /\ chain' = c
    /\ UNCHANGED <<data, signaturesInfo, codecVars>>
    /\ LET rc == ResolveChain(c) IN
       IF rc.err # "none"
       THEN /\ ret' = rc.err
            /\ UNCHANGED <<attrs, pc, locals>>
       ELSE LET cid == rc.v["chain_id"]
                pre == unhexlify(cid)
                body == SelfBytes(data)
            IN  /\ privkeys' = UniqueFrom(wifkeys, 1, <<>>)
                /\ chainid' = cid
                /\ IF pre.err # "none"
                   THEN ret' = pre.err /\ UNCHANGED <<message, digest, pc, locals>>
                   ELSE IF body.err # "none"
                   THEN ret' = body.err /\ UNCHANGED <<message, digest, pc, locals>>
                   ELSE /\ message' = pre.v \o body.v
                        /\ digest' = sha256(pre.v \o body.v)
                        /\ ret' = "running"
                        /\ pc' = "for"
                        /\ kidx' = 1
                        /\ UNCHANGED <<sigs, cnt, i, signature, sigder, rec, sigsInfo>>

\* the head of "for wif in self.privkeys", and past its end the store and return
ForKey ==
    /\ pc = "for"
    /\ UNCHANGED <<attrs, calls, chain, codecVars>>
    /\ IF kidx > Len(privkeys)
       THEN /\ data' = StoreSignatures(data, sigs)
            /\ signaturesInfo' = sigsInfo
            /\ ret' = "ok"
            /\ pc' = "idle"
            /\ ResetLocals
       ELSE IF ~PrivateKeyOk(privkeys[kidx])
       THEN /\ ret' = "PrivateKeyError"
            /\ pc' = "idle"
            /\ ResetLocals
            /\ UNCHANGED <<data, signaturesInfo>>
       ELSE /\ cnt' = 0
            /\ i' = 0
            /\ pc' = "while"
            /\ UNCHANGED <<data, signaturesInfo, ret, sigs, kidx, signature, sigder,
                           rec, sigsInfo>>

\* sigstr = struct.pack("<B", i) + signature; sigs.append(Signature(sigstr))
Pack ==
    /\ sigs' = Append(sigs, Signature(LEBytes(i', 1) \o signature'))
    /\ sigsInfo' = Append(sigsInfo, [wif |-> privkeys[kidx], chainid |-> chainid,
                                     digest |-> digest, sigder |-> sigder', rec |-> rec'])
    /\ kidx' = kidx + 1
    /\ pc' = "for"

\* one pass of the search loop up to the canonical test: count, sign the
\* digest, reformat the signature
SignDigest ==
    /\ pc = "while"
    /\ UNCHANGED <<data, signaturesInfo, attrs, calls, chain, codecVars>>
    /\ IF WhileCond(cnt)
       THEN /\ cnt' = IF cnt < MaxCnt THEN cnt + 1 ELSE cnt
            /\ \E cand \in Candidates(get_verifying_key(privkeys[kidx])) :
                 LET der == sigencode_der(cand.r, cand.s)
                     rs == sigdecode_der(der)
                 IN  /\ sigder' = der
                     /\ signature' = sigencode_string(rs[1], rs[2])
                     /\ rec' = cand.rec
            /\ pc' = "check"
            /\ UNCHANGED <<ret, sigs, kidx, i, sigsInfo>>
       ELSE /\ UNCHANGED <<ret, cnt, i, signature, sigder, rec>>
            /\ Pack

\* the canonical test, the recovery parameter, and after the break the packing
Check ==
    /\ pc = "check"
    /\ UNCHANGED <<data, signaturesInfo, attrs, calls, chain, codecVars>>
    /\ IF IsCanonical(sigder)
       THEN LET h == HeaderByte(rec, get_verifying_key(privkeys[kidx])) IN
            IF h.err # "none"
            THEN /\ ret' = h.err
                 /\ pc' = "idle"
                 /\ ResetLocals
            ELSE /\ i' = h.v.d
                 /\ UNCHANGED <<ret, cnt, signature, sigder, rec>>
                 /\ Pack
       ELSE /\ pc' = "while"
            /\ UNCHANGED <<ret, locals>>

(***************************************************************************)
(* The JSON mirror.  A Python str is [kind, n, s, j]: the text '%d' % n    *)
(* (kind "int"), the text json.dumps(j) (kind "json"), or any other text,  *)
(* with code points s (kind "text").  A JSON value is [j, n, s, items].    *)
(***************************************************************************)
JNum(n) == [j |-> "num", n |-> n, s |-> <<>>, items |-> <<>>]
JStr(s) == [j |-> "str", n |-> 0, s |-> s, items |-> <<>>]
JList(items) == [j |-> "list", n |-> 0, s |-> <<>>, items |-> items]
\* a dict: items are <<name, value>> pairs in insertion order
JDict(items) == [j |-> "dict", n |-> 0, s |-> <<>>, items |-> items]

IntText(n) == [kind |-> "int", n |-> n, s |-> <<>>, j |-> JNum(0)]
JsonText(j) == [kind |-> "json", n |-> 0, s |-> <<>>, j |-> j]
Text(s) == [kind |-> "text", n |-> 0, s |-> s, j |-> JNum(0)]

RECURSIVE DecStr(_)
\* the decimal digits of n >= 0
DecStr(n) == IF n < 10 THEN <<48 + n>> ELSE DecStr(n \div 10) \o <<48 + (n % 10)>>

Digits2(n) == <<48 + (n \div 10), 48 + (n % 10)>>

\* the text YYYY-MM-DDTHH:MM:SS a PointInTime was built from
TimeText(ts) ==
    DecStr(ts[1]) \o <<45>> \o Digits2(ts[2]) \o <<45>> \o Digits2(ts[3]) \o <<84>>
    \o Digits2(ts[4]) \o <<58>> \o Digits2(ts[5]) \o <<58>> \o Digits2(ts[6])

HexDigit(n) == IF n < 10 THEN 48 + n ELSE 87 + n
RECURSIVE hexlify(_)
hexlify(b) ==
    IF b = <<>> THEN <<>>
    ELSE <<HexDigit(b[1] \div 16), HexDigit(b[1] % 16)>> \o hexlify(Tail(b))

RECURSIVE DigitsValue(_, _)
DigitsValue(s, acc) ==
    IF s = <<>> THEN acc ELSE DigitsValue(Tail(s), 10 * acc + (s[1] - 48))

\* whether a text is a JSON integer literal
IsIntLiteral(s) ==
    /\ s # <<>>
    /\ \A k \in 1..Len(s) : s[k] >= 48 /\ s[k] <= 57
    /\ (Len(s) > 1 => s[1] # 48)

\* json.loads(text)
json_loads(text) ==
    CASE text.kind = "int" ->
            Ok(JNum(text.n))
      [] text.kind = "json" -> Ok(text.j)
      [] text.kind = "text" ->
            IF IsIntLiteral(text.s) THEN Ok(JNum(DigitsValue(text.s, 0)))
            ELSE Raise("ValueError")

\* Optional.isempty: return bool(self.data)
isempty(v) == v.d.t # "None"

RECURSIVE strOf(_)
RECURSIVE JsonObj(_)
RECURSIVE jsonList(_, _)
RECURSIVE jsonItems(_, _, _)

\* JsonObj(data) == json.loads(str(data))
JsonObj(v) ==
    LET sv == strOf(v) IN
    IF sv.err # "none" THEN sv ELSE json_loads(sv.v)

\* [JsonObj(a) for a in items] from idx on
jsonList(items, idx) ==
    IF idx > Len(items) THEN Ok(<<>>)
    ELSE LET h == JsonObj(items[idx]) IN
         IF h.err # "none" THEN h
         ELSE LET r == jsonList(items, idx + 1) IN
              IF r.err # "none" THEN r ELSE Ok(<<h.v>> \o r.v)

\* the loop of GrapheneObject.__json__ from field idx on, d the dict so far
jsonItems(fields, idx, d) ==
    IF idx > Len(fields) THEN Ok(d)
    ELSE LET name == fields[idx][1]
             value == fields[idx][2]
         IN  IF value.t = "Optional" /\ isempty(value)
             THEN jsonItems(fields, idx + 1, d)
             ELSE LET jo == JsonObj(value) IN
                  IF jo.err = "none"
                  THEN jsonItems(fields, idx + 1, Append(d, <<name, jo.v>>))
                  ELSE LET sv == strOf(value) IN
                       IF sv.err # "none" THEN sv
                       ELSE jsonItems(fields, idx + 1,
                                      Append(d, <<name, JStr(IF sv.v.kind = "int"
                                                             THEN DecStr(sv.v.n)
                                                             ELSE sv.v.s)>>))

\* GrapheneObject.__json__
json(v) == IF v.none THEN Ok(JDict(<<>>)) ELSE
    LET r == jsonItems(v.data, 1, <<>>) IN
    IF r.err # "none" THEN r ELSE Ok(JDict(r.v))

\* str(v): the __str__ method of v's class
strOf(v) ==
    CASE v.t = "None" -> Ok(Text(<<78, 111, 110, 101>>))
      [] v.t \in {"Uint8", "Bool", "Uint16", "Uint32", "Uint64", "Varint32", "Int64"} ->
            Ok(IntText(v.d))
      [] v.t = "String" -> Raise("TypeError")
      [] v.t = "Bytes" -> Ok(Text(v.d))
      [] v.t = "Void" -> Ok(Text(<<>>))
      [] v.t \in {"Array", "Set"} ->
            LET r == jsonList(v.d, 1) IN
            IF r.err # "none" THEN r ELSE Ok(JsonText(JList(r.v)))
      [] v.t = "PointInTime" -> Ok(Text(TimeText(v.d)))
      [] v.t = "Signature" -> Ok(JsonText(JStr(hexlify(v.d))))
      [] v.t = "Optional" -> strOf(v.d)
      [] v.t = "Id" -> strOf(v.d)
      [] v.t = "Operation" ->
            LET r == JsonObj(v.op) IN
            IF r.err # "none" THEN r ELSE Ok(JsonText(JList(<<JNum(v.opId), r.v>>)))
      [] v.t = "GrapheneObject" ->
            LET r == json(v) IN
            IF r.err # "none" THEN r ELSE Ok(JsonText(r.v))
      [] v.t = "ObjectId" ->
            Ok(Text(DecStr(v.Id[1]) \o <<46>> \o DecStr(v.Id[2]) \o <<46>> \o DecStr(v.Id[3])))
      [] v.t = "PublicKey" -> Ok(Text(<<71, 80, 72, 48 + v.pk>>))

(***************************************************************************)
(* The codec operations applied to drawn inputs.                           *)
(***************************************************************************)
Unset == [err |-> "unset", v |-> <<>>]

\* the Optional values encoded: the memo fields of the three transfers and
\* optionals of a primitive and of an Asset
OptInputs ==
    << TransferNoMemo.data[5][2],
       TransferEmptyMemo.data[5][2],
       TransferFullMemo.data[5][2],
       Optional(Uint8(5)),
       Optional(Fee) >>

\* the composites rendered as JSON
ObjInputs ==
    << TransferNoMemo, TransferEmptyMemo, TransferFullMemo, Fee, FullMemo, MemoEmpty,
       GrapheneObject("probe", << <<"a", Optional(Uint8(5))>>, <<"b", Uint16(7)>>,
                                  <<"c", Optional(None)>> >>) >>

VarintInputs == (0..MaxVarint) \cup {16383, 16384, 2097151, 2097152}

CodecInit ==
    /\ vn \in VarintInputs /\ vout = Unset
    /\ optIn \in 1..Len(OptInputs) /\ optOut = Unset
    /\ objIn \in 1..Len(ObjInputs) /\ objOut = Unset

CodecIdle ==
    /\ vn = 0 /\ vout = Unset
    /\ optIn = 1 /\ optOut = Unset
    /\ objIn = 1 /\ objOut = Unset

\* varintdecode(varint(vn))
VarintRoundTrip ==
    /\ vout.err = "unset"
    /\ vout' = varintdecode(PyBytes(varint(vn)))
    /\ UNCHANGED <<signVars, vn, optIn, optOut, objIn, objOut>>

\* bytes(o) of the drawn Optional
OptionalEncode ==
    /\ optOut.err = "unset"
    /\ optOut' = bytesOf(OptInputs[optIn])
    /\ UNCHANGED <<signVars, vn, vout, optIn, objIn, objOut>>

\* o.__json__() of the drawn composite
JsonRender ==
    /\ objOut.err = "unset"
    /\ objOut' = json(ObjInputs[objIn])
    /\ UNCHANGED <<signVars, vn, vout, optIn, optOut, objIn>>

(***************************************************************************)
(* The specifications.                                                     *)
(***************************************************************************)
Init == (\E k \in 1..Len(Txs) : SignInit(Txs[k])) /\ CodecIdle

Next ==
    \/ \E w \in 1..Len(WifLists), c \in 1..Len(ChainArgs) : Sign(WifLists[w], ChainArgs[c])
    \/ ForKey
    \/ SignDigest
    \/ Check

Spec == Init /\ [][Next]_vars

\* a running sign call keeps executing
FairSpec == Spec /\ WF_vars(ForKey) /\ WF_vars(SignDigest) /\ WF_vars(Check)

InitCodec == SignInit(Txs[1]) /\ CodecInit

NextCodec == VarintRoundTrip \/ OptionalEncode \/ JsonRender

SpecCodec == InitCodec /\ [][NextCodec]_vars

(***************************************************************************)
(* The properties.                                                         *)
(***************************************************************************)
\* the transaction's bytes with the signatures field emitting nothing
UnsignedBytes(d) == SelfBytes(SetItem(d, "signatures", Void))

HasSignatures == data[6][2].t = "Array"

\* C1: every signature held in the signatures field was produced over
\* sha256(hex_decode(chain_id) || unsigned transaction bytes), so that the
\* recovery from that digest gives the signer's key; in particular no
\* signature was made over a message holding earlier signatures.
C1_SignaturesOverUnsignedDigest ==
    HasSignatures =>
        \A k \in 1..Len(signaturesInfo) :
            signaturesInfo[k].digest =
                sha256(unhexlify(signaturesInfo[k].chainid).v \o UnsignedBytes(data).v)

\* C2: sign replaces no entry of the field map but signatures: the first
\* five fields keep their values in every step, whatever the call's outcome.
C2_OnlySignaturesMutated ==
    [][ /\ Len(data') = 6
        /\ \A k \in 1..5 : data'[k] = data[k]
        /\ data'[6][1] = "signatures" ]_vars

\* a second, successful sign call on a transaction signed before, two keys
C2_Witness ==
    /\ calls = 2 /\ ret = "ok" /\ HasSignatures /\ Len(data[6][2].d) = 2
    /\ Len(message) > 100

\* the claim's description of one produced signature sg with the DER form
\* and the recovery answers it was made from
WellFormedSignature(sg, info) ==
    /\ Len(sg.d) = 65
    /\ sg.d[1] \in {31, 32, 33, 34}
    /\ info.sigder[4] = 32
    /\ info.sigder[38] = 32
    /\ SubSeq(sg.d, 2, 33) = SubSeq(info.sigder, 5, 36)
    /\ SubSeq(sg.d, 34, 65) = SubSeq(info.sigder, 39, 70)
    /\ \E idx \in 0..3 :
          /\ info.rec[idx + 1] = get_verifying_key(info.wif)
          /\ \A j \in 0..(idx - 1) : info.rec[j + 1] # get_verifying_key(info.wif)
          /\ sg.d[1] = 27 + 4 + idx

\* C3: every signature sign produces (collected in sigs, then stored in the
\* signatures field) is 65 bytes header || r || s, from a DER signature
\* whose two length octets are 32, with header 27 + 4 + i for the smallest
\* recovery index i that recovers the signer's key.
C3_SignaturesCanonical ==
    /\ Len(sigsInfo) = Len(sigs)
    /\ \A k \in 1..Len(sigs) : WellFormedSignature(sigs[k], sigsInfo[k])
    /\ HasSignatures =>
          /\ Len(signaturesInfo) = Len(data[6][2].d)
          /\ \A k \in 1..Len(signaturesInfo) :
                WellFormedSignature(data[6][2].d[k], signaturesInfo[k])

\* two stored signatures, one with recovery index 0 and one with index 2 and
\* a padded r
C3_Witness ==
    /\ HasSignatures /\ Len(data[6][2].d) = 2
    /\ data[6][2].d[1].d[1] = 31
    /\ data[6][2].d[2].d[1] = 33 /\ data[6][2].d[2].d[2] = 0

\* C4: a sign call that completed successfully hashed a message that begins
\* with a 32-byte chain id.
C4_ChainPrefix32 ==
    (ret = "ok") =>
        /\ Len(chainid) = 64
        /\ Len(unhexlify(chainid).v) = 32
        /\ Len(message) >= 32

\* the chain arguments the claim names: an unknown string, neither a string
\* nor a mapping, a mapping without chain_id
BadChain(c) ==
    \/ c.k = "str" /\ c.s \notin {"BTS", "GPH"}
    \/ c.k \notin {"str", "dict"}
    \/ c.k = "dict" /\ "chain_id" \notin DOMAIN c.d

\* C5: a sign call with such a chain argument fails at once: it ends with an
\* exception, starts no signing and leaves the transaction, the attributes
\* and the signatures as they were.
C5_BadChainFailsFirst ==
    [][ (calls' = calls + 1 /\ BadChain(chain')) =>
           /\ ret' \notin {"ok", "running", "none"}
           /\ pc' = "idle"
           /\ data' = data
           /\ UNCHANGED <<attrs, locals, signaturesInfo>> ]_vars

\* a call with a mapping that has no chain_id, on a signed transaction
C5_Witness ==
    /\ calls = 2 /\ chain.k = "dict" /\ "chain_id" \notin DOMAIN chain.d
    /\ ret = "Exception: sign() needs a 'chain_id' in chain params!"
    /\ HasSignatures /\ Len(data[6][2].d) = 1

\* an optional holding no value: built from None, or from the empty Memo()
AbsentOptional(o) == o.d.t = "None" \/ (o.d.t = "GrapheneObject" /\ o.d.none)

\* C6: encoding an optional never fails; an absent optional encodes as the
\* byte 0x00, a present one as 0x01 followed by the bytes of its value.
C6_OptionalBytes ==
    (optOut.err # "unset") =>
        /\ optOut.err = "none"
        /\ optOut.v = IF AbsentOptional(OptInputs[optIn]) THEN <<0>>
                      ELSE <<1>> \o bytesOf(OptInputs[optIn].d).v

\* the names of the fields of composite o that the claim expects as keys
ExpectedKeys(o) ==
    IF o.none THEN {}
    ELSE {o.data[k][1] : k \in {m \in 1..Len(o.data) :
                                   ~(o.data[m][2].t = "Optional"
                                     /\ AbsentOptional(o.data[m][2]))}}

\* C7: the JSON rendering has one key per field, but none for a field
\* holding an absent optional; a present optional is rendered as its value.
C7_JsonKeys ==
    (objOut.err # "unset") =>
        /\ objOut.err = "none"
        /\ {objOut.v.items[k][1] : k \in 1..Len(objOut.v.items)} = ExpectedKeys(ObjInputs[objIn])
        /\ \A m \in 1..Len(ObjInputs[objIn].data) :
              LET f == ObjInputs[objIn].data[m] IN
              (f[2].t = "Optional" /\ ~AbsentOptional(f[2]) /\ JsonObj(f[2].d).err = "none") =>
                  \E k \in 1..Len(objOut.v.items) :
                      objOut.v.items[k] = <<f[1], JsonObj(f[2].d).v>>

\* C8: varintdecode(varint(n)) = n.
C8_VarintRoundTrip ==
    (vout.err # "unset") => (vout.err = "none" /\ vout.v = vn)

\* C9: a candidate that passes the canonical test and whose key no recovery
\* index recovers is discarded: the search goes on with a new attempt for
\* the same key, nothing is emitted and the call does not end.
C9_RetryWhenNoIndexRecovers ==
    [][ ( /\ pc = "check"
          /\ sigder[4] = 32 /\ sigder[38] = 32
          /\ \A idx \in 0..3 : rec[idx + 1] # get_verifying_key(privkeys[kidx]) ) =>
           /\ pc' = "while"
           /\ ret' = "running"
           /\ sigs' = sigs
           /\ kidx' = kidx ]_vars

\* C10 as stated: a sign call in the search loop eventually ends.
C10_SignTerminates == (pc = "while") ~> (pc = "idle")

\* C10 as amended: the search has no retry budget.  Sign leaves the search
\* loop only from the canonical test, with a candidate that passed it; after
\* a candidate that failed it, it goes back for another attempt with the
\* same key and the signatures collected so far.
C10_NoRetryBudget ==
    [][ /\ (pc \in {"while", "check"} /\ pc' \notin {"while", "check"}) =>
             (pc = "check" /\ sigder[4] = 32 /\ sigder[38] = 32)
        /\ (pc = "check" /\ ~(sigder[4] = 32 /\ sigder[38] = 32)) =>
             (pc' = "while" /\ kidx' = kidx /\ sigs' = sigs /\ ret' = "running") ]_vars

\* the search still running after MaxCnt attempts or more, the last one
\* not canonical
C10_Witness ==
    /\ pc = "while" /\ cnt = MaxCnt
    /\ sigder # <<>> /\ sigder[4] # 32

=============================================================================
